---- MODULE Spec2Model ----
(***************************************************************************)
(* Booking pricing, availability and payment engine of PropertyPulse.      *)
(*                                                                         *)
(* Dates are day numbers: day 0 is 1 January of a non-leap year, every     *)
(* date is at start-of-day (startOfDay is applied by the code before any   *)
(* arithmetic).  Money is an integer; rates are multiples of 10 so that    *)
(* the 10%-step discounts are exact.  A rate of 0 stands for an unset      *)
(* (null) weekly or monthly rate.                                          *)
(***************************************************************************)
EXTENDS Integers, Sequences, FiniteSets, TLC

\* ------------------------------------------------------------------ bounds
MaxCheckIn == 59        \* check-in dates range over day 0 .. MaxCheckIn
MaxStay == 65           \* stay lengths range up to MaxStay days

NightlyRates == {100}
WeeklyRates == {0, 600}
MonthlyRates == {0, 2000}
StayLengths == (0 - 1)..MaxStay

Min(a, b) == IF a <= b THEN a ELSE b

\* ---------------------------------------------------------------- calendar
MonthLengths == <<31, 28, 31, 30, 31, 30, 31, 31, 30, 31, 30, 31>>
LastDay == MaxCheckIn + MaxStay + 31
LastMonth == (LastDay \div 28) + 2

getDaysInMonth(m) == MonthLengths[(m % 12) + 1]

RECURSIVE MonthStartRec(_)
MonthStartRec(m) == IF m = 0 THEN 0 ELSE MonthStartRec(m - 1) + getDaysInMonth(m - 1)

\* first day number of month m (months counted from month 0 = January)
MonthStart == [m \in 0..(LastMonth + 1) |-> MonthStartRec(m)]

\* month index of a day number (year * 12 + month of date-fns)
getMonth == [d \in 0..LastDay |->
               CHOOSE m \in 0..LastMonth : MonthStart[m] <= d /\ d < MonthStart[m + 1]]

\* day of the month, 1-based
getDate(d) == d - MonthStart[getMonth[d]] + 1

\* date-fns addMonths: same day of the month, clamped to the month's last day
addMonths(d, n) ==
    LET m == getMonth[d] + n
    IN  MonthStart[m] + Min(getDate(d), getDaysInMonth(m)) - 1

addWeeks(d, n) == d + 7 * n

addDays(d, n) == d + n

\* date-fns differenceInDays on start-of-day dates
differenceInDays(a, b) == a - b

\* date-fns differenceInCalendarMonths: year and month fields only
differenceInCalendarMonths(a, b) == getMonth[a] - getMonth[b]

\* ----------------------------------------------------------------- pricing
Properties == [rate : NightlyRates, weeklyRate : WeeklyRates, monthlyRate : MonthlyRates]

discountPercentOf(periodIndex) == Min(periodIndex * 10, 50)

\* mutant: the discount counted from 1 instead of 0
calculateDiscountedRate_FromOne(baseRate, periodIndex) ==
    (baseRate * (100 - discountPercentOf(periodIndex + 1))) \div 100

calculateDiscountedRate(baseRate, periodIndex) ==
    (baseRate * (100 - discountPercentOf(periodIndex))) \div 100

\* mutant: the month's end not clamped to the stay's end
calculateMonthlyEnd_Unclamped(date, endDate) == addMonths(date, 1)

calculateMonthlyEnd(date, endDate) ==
    LET nextMonth == addMonths(date, 1)
    IN  IF nextMonth <= endDate THEN nextMonth ELSE endDate

calculateWeeklyEnd(date, endDate) ==
    LET nextWeek == addWeeks(date, 1)
    IN  IF nextWeek <= endDate THEN nextWeek ELSE endDate

\* mutant: the monthly branch taken whenever 30 days remain
MonthlyFits_ThirtyDays(property, currentDate, endDate) ==
    /\ property.monthlyRate # 0
    /\ differenceInDays(endDate, currentDate) >= 30

\* the monthly branch is taken (both conditions of the nested ifs)
MonthlyFits(property, currentDate, endDate) ==
    /\ property.monthlyRate # 0
    /\ differenceInCalendarMonths(endDate, currentDate) >= 1
    /\ differenceInCalendarMonths(calculateMonthlyEnd(currentDate, endDate), currentDate) = 1

\* mutant: the weekly branch taken without looking at the weekly rate
WeeklyFits_AnyRate(property, currentDate, endDate) ==
    differenceInDays(endDate, currentDate) >= 7

\* mutant: the weekly branch taken with 6 days remaining
WeeklyFits_SixDays(property, currentDate, endDate) ==
    /\ property.weeklyRate # 0
    /\ differenceInDays(endDate, currentDate) >= 6

WeeklyFits(property, currentDate, endDate) ==
    /\ property.weeklyRate # 0
    /\ differenceInDays(endDate, currentDate) >= 7

ServerPeriod(type, startDate, endDate, baseRate, duration, periodIndex) ==
    [type |-> type, startDate |-> startDate, endDate |-> endDate,
     amount |-> calculateDiscountedRate(baseRate, periodIndex),
     baseRate |-> baseRate, duration |-> duration,
     discountPercent |-> discountPercentOf(periodIndex)]

\* mutant: the daily branch pushes one period per day
ServerNextPeriod_DayByDay(property, currentDate, endDate, periodIndex) ==
    IF MonthlyFits(property, currentDate, endDate)
    THEN ServerPeriod("monthly", currentDate, calculateMonthlyEnd(currentDate, endDate),
                      property.monthlyRate, 1, periodIndex)
    ELSE IF WeeklyFits(property, currentDate, endDate)
    THEN ServerPeriod("weekly", currentDate, calculateWeeklyEnd(currentDate, endDate),
                      property.weeklyRate, 1, periodIndex)
    ELSE ServerPeriod("daily", currentDate, addDays(currentDate, 1), property.rate, 1,
                      periodIndex)

\* mutant: the weekly branch tried before the monthly one
ServerNextPeriod_WeeklyFirst(property, currentDate, endDate, periodIndex) ==
    IF WeeklyFits(property, currentDate, endDate)
    THEN ServerPeriod("weekly", currentDate, calculateWeeklyEnd(currentDate, endDate),
                      property.weeklyRate, 1, periodIndex)
    ELSE IF MonthlyFits(property, currentDate, endDate)
    THEN ServerPeriod("monthly", currentDate, calculateMonthlyEnd(currentDate, endDate),
                      property.monthlyRate, 1, periodIndex)
    ELSE ServerPeriod("daily", currentDate, endDate,
                      property.rate * differenceInDays(endDate, currentDate),
                      differenceInDays(endDate, currentDate), periodIndex)

\* one iteration of the while loop: the period pushed at currentDate
ServerNextPeriod(property, currentDate, endDate, periodIndex) ==
    IF MonthlyFits(property, currentDate, endDate)
    THEN ServerPeriod("monthly", currentDate, calculateMonthlyEnd(currentDate, endDate),
                      property.monthlyRate, 1, periodIndex)
    ELSE IF WeeklyFits(property, currentDate, endDate)
    THEN ServerPeriod("weekly", currentDate, calculateWeeklyEnd(currentDate, endDate),
                      property.weeklyRate, 1, periodIndex)
    ELSE ServerPeriod("daily", currentDate, endDate,
                      property.rate * differenceInDays(endDate, currentDate),
                      differenceInDays(endDate, currentDate), periodIndex)

RECURSIVE ServerLoop(_, _, _, _, _)
ServerLoop(property, currentDate, endDate, periodIndex, periods) ==
    IF ~(currentDate < endDate) THEN periods
    ELSE LET period == ServerNextPeriod(property, currentDate, endDate, periodIndex)
         IN  ServerLoop(property, period.endDate, endDate, periodIndex + 1,
                        Append(periods, period))

\* server-side calculatePricePeriods(property, checkIn, checkOut)
calculatePricePeriods(property, checkIn, checkOut) ==
    ServerLoop(property, checkIn, checkOut, 0, <<>>)

RECURSIVE SumAmount(_)
SumAmount(periods) ==
    IF periods = <<>> THEN 0 ELSE Head(periods).amount + SumAmount(Tail(periods))

\* ------------------------------------------------------- client estimator
\* calculatePeriodMetrics: the integer metrics of a period (the per-day ratios
\* effectiveDailyRate and discountPercentage are display-only quotients)
ClientPeriod(type, startDate, endDate, amount, baseRate, duration, normalDailyRate) ==
    [type |-> type, startDate |-> startDate, endDate |-> endDate,
     amount |-> amount, baseRate |-> baseRate, duration |-> duration,
     daysInPeriod |-> differenceInDays(endDate, startDate),
     normalDailyTotal |-> normalDailyRate * differenceInDays(endDate, startDate)]

\* mutant: the estimator's loop without its monthly branch
EstimatorNextPeriod_NoMonthly(p, currentDate, endDate) ==
    IF WeeklyFits(p, currentDate, endDate)
    THEN ClientPeriod("weekly", currentDate, calculateWeeklyEnd(currentDate, endDate),
                      p.weeklyRate, p.weeklyRate, 1, p.rate)
    ELSE ClientPeriod("daily", currentDate, endDate,
                      p.rate * differenceInDays(endDate, currentDate), p.rate,
                      differenceInDays(endDate, currentDate), p.rate)

\* one iteration of the estimator's while loop
EstimatorNextPeriod(p, currentDate, endDate) ==
    IF MonthlyFits(p, currentDate, endDate)
    THEN ClientPeriod("monthly", currentDate, calculateMonthlyEnd(currentDate, endDate),
                      p.monthlyRate, p.monthlyRate, 1, p.rate)
    ELSE IF WeeklyFits(p, currentDate, endDate)
    THEN ClientPeriod("weekly", currentDate, calculateWeeklyEnd(currentDate, endDate),
                      p.weeklyRate, p.weeklyRate, 1, p.rate)
    ELSE ClientPeriod("daily", currentDate, endDate,
                      p.rate * differenceInDays(endDate, currentDate), p.rate,
                      differenceInDays(endDate, currentDate), p.rate)

RECURSIVE EstimatorLoop(_, _, _, _)
EstimatorLoop(p, currentDate, endDate, periods) ==
    IF ~(currentDate < endDate) THEN periods
    ELSE LET period == EstimatorNextPeriod(p, currentDate, endDate)
         IN  EstimatorLoop(p, period.endDate, endDate, Append(periods, period))

\* client-side calculatePricePeriods of PaymentEstimator.tsx
EstimatorPricePeriods(p, from, to) == EstimatorLoop(p, from, to, <<>>)

HasPeriod(periods, type) == \E i \in 1..Len(periods) : periods[i].type = type

\* deposit of PaymentEstimator.tsx: by the tiers the periods use
EstimatorDeposit(p, periods) ==
    IF HasPeriod(periods, "monthly") /\ p.monthlyRate # 0 THEN p.monthlyRate
    ELSE IF HasPeriod(periods, "weekly") /\ p.weeklyRate # 0 THEN p.weeklyRate
    ELSE p.rate * 7

\* the useMemo of PaymentEstimator
PaymentEstimator(p, from, to) ==
    LET periods == EstimatorPricePeriods(p, from, to)
        deposit == EstimatorDeposit(p, periods)
    IN  [periods |-> periods, deposit |-> deposit,
         total |-> SumAmount(periods) + deposit]

\* ------------------------------------- estimator, month-count variant (part_007)
\* the monthly branch only asks for a later calendar month
Part007MonthlyFits(p, currentDate, endDate) ==
    /\ p.monthlyRate # 0
    /\ differenceInCalendarMonths(endDate, currentDate) >= 1

Part007NextPeriod(p, currentDate, endDate) ==
    IF Part007MonthlyFits(p, currentDate, endDate)
    THEN ClientPeriod("monthly", currentDate, calculateMonthlyEnd(currentDate, endDate),
                      p.monthlyRate, p.monthlyRate, 1, p.rate)
    ELSE IF WeeklyFits(p, currentDate, endDate)
    THEN ClientPeriod("weekly", currentDate, calculateWeeklyEnd(currentDate, endDate),
                      p.weeklyRate, p.weeklyRate, 1, p.rate)
    ELSE ClientPeriod("daily", currentDate, endDate,
                      p.rate * differenceInDays(endDate, currentDate), p.rate,
                      differenceInDays(endDate, currentDate), p.rate)

RECURSIVE Part007Loop(_, _, _, _)
Part007Loop(p, currentDate, endDate, periods) ==
    IF ~(currentDate < endDate) THEN periods
    ELSE LET period == Part007NextPeriod(p, currentDate, endDate)
         IN  Part007Loop(p, period.endDate, endDate, Append(periods, period))

Part007PricePeriods(p, from, to) == Part007Loop(p, from, to, <<>>)

\* deposit of the variant: by the rates the property has
Part007Deposit(p) ==
    IF p.monthlyRate # 0 THEN p.monthlyRate
    ELSE IF p.weeklyRate # 0 THEN p.weeklyRate
    ELSE p.rate * 7

Part007Estimator(p, from, to) ==
    LET periods == Part007PricePeriods(p, from, to)
        deposit == Part007Deposit(p)
    IN  [periods |-> periods, deposit |-> deposit,
         total |-> SumAmount(periods) + deposit]

\* ------------------------------ estimator, batched-periods variant (part_006)
\* addPeriod: one period of duration months, weeks or days at the given rate
Part006Period(type, currentDate, duration, rate, normalDailyRate) ==
    LET periodEnd == IF type = "monthly" THEN addMonths(currentDate, duration)
                     ELSE IF type = "weekly" THEN addWeeks(currentDate, duration)
                     ELSE addDays(currentDate, duration)
    IN  ClientPeriod(type, currentDate, periodEnd, rate * duration, rate, duration,
                     normalDailyRate)

\* the monthly step: all the calendar months between the dates, as one period
Part006Months(p, from, to) ==
    IF p.monthlyRate # 0 /\ differenceInCalendarMonths(to, from) > 0
    THEN <<Part006Period("monthly", from, differenceInCalendarMonths(to, from),
                         p.monthlyRate, p.rate)>>
    ELSE <<>>

\* currentDate after a step's periods
Part006Current(periods, from) ==
    IF periods = <<>> THEN from ELSE periods[Len(periods)].endDate

\* the weekly step: the complete weeks of the remaining days, as one period
Part006Weeks(p, periods, from, to) ==
    LET currentDate == Part006Current(periods, from)
        remainingDays == differenceInDays(to, currentDate)
    IN  IF p.weeklyRate # 0 /\ remainingDays >= 7
        THEN Append(periods, Part006Period("weekly", currentDate, remainingDays \div 7,
                                           p.weeklyRate, p.rate))
        ELSE periods

\* the daily step: the remaining days, as one period
Part006Days(p, periods, from, to) ==
    LET currentDate == Part006Current(periods, from)
        remainingDays == differenceInDays(to, currentDate)
    IN  IF remainingDays > 0
        THEN Append(periods, Part006Period("daily", currentDate, remainingDays,
                                           p.rate, p.rate))
        ELSE periods

Part006PricePeriods(p, from, to) ==
    Part006Days(p, Part006Weeks(p, Part006Months(p, from, to), from, to), from, to)

\* longestPeriodUsed: the period with the largest baseRate
RECURSIVE longestPeriodUsed(_, _)
longestPeriodUsed(periods, longestBaseRate) ==
    IF periods = <<>> THEN longestBaseRate
    ELSE longestPeriodUsed(Tail(periods),
             IF Head(periods).baseRate > longestBaseRate
             THEN Head(periods).baseRate ELSE longestBaseRate)

\* deposit of the variant: the largest baseRate, property.rate when there is none
Part006Deposit(p, periods) ==
    IF longestPeriodUsed(periods, 0) # 0 THEN longestPeriodUsed(periods, 0) ELSE p.rate

Part006Estimator(p, from, to) ==
    LET periods == Part006PricePeriods(p, from, to)
        deposit == Part006Deposit(p, periods)
    IN  [periods |-> periods, deposit |-> deposit,
         total |-> SumAmount(periods) + deposit]

NoEstimate == [periods |-> <<>>, deposit |-> 0, total |-> 0]

\* ----------------------------------------------------------- booking store
MaxBookings == 2        \* rows of the bookings table
MaxGuests == 1          \* rows of the guests table

PropertyIds == {1, 2}
PropertyTable ==
    [id \in PropertyIds |->
        IF id = 1 THEN [rate |-> 100, weeklyRate |-> 600, monthlyRate |-> 2000]
        ELSE [rate |-> 100, weeklyRate |-> 0, monthlyRate |-> 0]]

\* the stays clients ask for: 10-15 January, 14-20 January, 15-20 January
Stays == {[checkIn |-> 9, checkOut |-> 14], [checkIn |-> 13, checkOut |-> 19],
          [checkIn |-> 14, checkOut |-> 19]}
Statuses == {"pending", "confirmed", "cancelled"}

\* mutant: the where clause without its third disjunct (row inside candidate)
rangeClause_NoContainment(rowIn, rowOut, candIn, candOut) ==
    \/ (rowIn <= candIn /\ rowOut >= candIn)
    \/ (rowIn <= candOut /\ rowOut >= candOut)

\* the where clause shared by the availability queries: a stored row
\* [rowIn, rowOut] against the candidate [candIn, candOut]
rangeClause(rowIn, rowOut, candIn, candOut) ==
    \/ (rowIn <= candIn /\ rowOut >= candIn)
    \/ (rowIn <= candOut /\ rowOut >= candOut)
    \/ (rowIn >= candIn /\ rowOut <= candOut)

\* POST /api/bookings (with availability check): db.query.bookings.findFirst
overlappingBookings(bs, propertyId, candIn, candOut) ==
    \E i \in 1..Len(bs) :
        /\ bs[i].propertyId = propertyId
        /\ bs[i].status = "confirmed"
        /\ rangeClause(bs[i].checkIn, bs[i].checkOut, candIn, candOut)

\* POST /api/properties/:id/check-availability: db.query.guests.findFirst
overlappingGuests(gs, propertyId, candIn, candOut) ==
    \E i \in 1..Len(gs) :
        /\ gs[i].propertyId = propertyId
        /\ rangeClause(gs[i].checkIn, gs[i].checkOut, candIn, candOut)

\* BookingForm.calculateTotalAmount: days * nightly rate
calculateTotalAmount(p, from, to) == (to - from) * p.rate

Null == "null"

Booking(propertyId, guestId, from, to, status, totalAmount) ==
    [propertyId |-> propertyId, guestId |-> guestId, checkIn |-> from,
     checkOut |-> to, status |-> status, totalAmount |-> totalAmount,
     bookingReference |-> Null]

\* the guests row of a registration
Guest(propertyId, from, to, bookingReference) ==
    [propertyId |-> propertyId, checkIn |-> from, checkOut |-> to,
     bookingReference |-> bookingReference]

\* 'BOOK' + six random characters
References == {"BOOKA1B2C3", "BOOKX7Y8Z9"}

\* property ids with no row in properties
UnknownPropertyIds == {3}

Idle == [pc |-> "idle", propertyId |-> 0, checkIn |-> 0, checkOut |-> 0,
         totalAmount |-> 0, conflict |-> FALSE]

NoStep == [kind |-> "none", propertyId |-> 0, checkIn |-> 0, checkOut |-> 0,
           conflict |-> FALSE, code |-> 0, dates |-> <<>>]

Step(kind, code) == [NoStep EXCEPT !.kind = kind, !.code = code]

\* a response together with the stay the request asked for
RequestStep(kind, propertyId, from, to, code) ==
    [NoStep EXCEPT !.kind = kind, !.propertyId = propertyId, !.checkIn = from,
                   !.checkOut = to, !.code = code]

CheckStep(kind, propertyId, from, to, conflict) ==
    [kind |-> kind, propertyId |-> propertyId, checkIn |-> from, checkOut |-> to,
     conflict |-> conflict, code |-> 200, dates |-> <<>>]

\* GET /api/properties/:id/availability: the confirmed bookings of the property
\* that the findMany's where clause selects for [startDate, endDate]
existingBookings(bs, propertyId, startDate, endDate) ==
    SelectSeq(bs, LAMBDA b :
        /\ b.propertyId = propertyId
        /\ b.status = "confirmed"
        /\ rangeClause(b.checkIn, b.checkOut, startDate, endDate))

\* ... isBooked of the current revision: checkIn <= currentDate < checkOut
isBooked(existing, currentDate) ==
    \E i \in 1..Len(existing) :
        currentDate >= existing[i].checkIn /\ currentDate < existing[i].checkOut

\* ... isBooked of the earlier revision: isWithinInterval, both ends included
isBookedWithinInterval(existing, currentDate) ==
    \E i \in 1..Len(existing) :
        currentDate >= existing[i].checkIn /\ currentDate <= existing[i].checkOut

\* ... the dates array: one entry per pass of while (currentDate <= endDate)
availabilityDates(bs, propertyId, startDate, endDate, withinInterval) ==
    LET existing == existingBookings(bs, propertyId, startDate, endDate)
        n == IF startDate <= endDate THEN endDate - startDate + 1 ELSE 0
    IN  [k \in 1..n |->
            LET currentDate == addDays(startDate, k - 1)
            IN  [date |-> currentDate,
                 available |-> IF withinInterval
                               THEN ~isBookedWithinInterval(existing, currentDate)
                               ELSE ~isBooked(existing, currentDate)]]

ListingStep(kind, propertyId, startDate, endDate, dates) ==
    [kind |-> kind, propertyId |-> propertyId, checkIn |-> startDate,
     checkOut |-> endDate, conflict |-> FALSE, code |-> 200, dates |-> dates]

\* ----------------------------------------------------------- payment store
MaxPayments == 2        \* rows of the payments table
MaxRequests == 4        \* requests served (ticks of the clock)

\* the booking the payments are for: property 1, 1 January to 10 February
PaidBookingPeriods == calculatePricePeriods(PropertyTable[1], 0, 40)
NumPeriods == Len(PaidBookingPeriods)
PeriodIndexes == 0..(NumPeriods - 1)

PaymentStatuses == {"pending", "confirmed", "refunded"}
Methods == {"cash", "card"}
Managers == {"Manager"}

\* a payments row; covers is the schedule position(s) the payment is for
Payment(status, method, covers, confirmedBy, confirmedAt) ==
    [guestId |-> 1, status |-> status, method |-> method, covers |-> covers,
     amount |-> SumAmount(SelectSeq(PaidBookingPeriods,
                    LAMBDA q : \E k \in covers : PaidBookingPeriods[k + 1] = q)),
     confirmedBy |-> confirmedBy, confirmedAt |-> confirmedAt]

\* the assets row written for a payment
Asset(payment, paymentId) ==
    [type |-> IF payment.method = "cash" THEN "cash" ELSE "bank",
     amount |-> payment.amount, paymentId |-> paymentId]

\* the periods that have a confirmed payment
PaidPeriods(ps) ==
    UNION {ps[i].covers : i \in {j \in 1..Len(ps) : ps[j].status = "confirmed"}}

\* number of periods, contiguous from 0, that have a confirmed payment
paidPeriodsCount(ps) ==
    CHOOSE n \in 0..NumPeriods :
        /\ \A k \in 0..(n - 1) : k \in PaidPeriods(ps)
        /\ n = NumPeriods \/ n \notin PaidPeriods(ps)

\* GET /api/payments/unpaid-periods, as validateNextPayment states it: the
\* proposal is out of order unless it is the next unpaid period or pays the
\* full remaining balance
unpaidPeriods(ps, proposedPeriodIndex, full) ==
    [paidPeriodsCount |-> paidPeriodsCount(ps),
     hasPriorUnpaid |-> ~(proposedPeriodIndex = paidPeriodsCount(ps) \/ full)]

\* POST /api/payments/process: records the confirmed payment and its asset
processPayment(ps, method, proposedPeriodIndex, full, at) ==
    Payment("confirmed", method,
            IF full THEN paidPeriodsCount(ps)..(NumPeriods - 1) ELSE {proposedPeriodIndex},
            Null, at)

NoProposal == [kind |-> "none", period |-> 0, full |-> FALSE]

\* ------------------------------------------------------------------- state
VARIABLES
    property,        \* the property's rate schedule
    checkIn,         \* the stay
    checkOut,
    pricePeriods,    \* result of the server's calculatePricePeriods
    estimates,       \* result of PaymentEstimator (PaymentEstimator.tsx)
    estimates007,    \* result of PaymentEstimator (part_007)
    estimates006,    \* result of PaymentEstimator (part_006)
    called,          \* which of the functions have been applied
    bookings,        \* the bookings table, a row's id is its index
    guests,          \* the guests table
    inflight,        \* a POST /api/bookings between its check and its insert
    lastStep,        \* the last handler step taken and what it answered
    payments,        \* the payments table, a row's id is its index
    assets,          \* the assets (ledger) table
    now,             \* the clock new Date() reads, one tick per request
    lastPay          \* the last payment proposal of the payment form and its outcome

priceVars == <<property, checkIn, checkOut, pricePeriods, estimates, estimates007,
              estimates006, called>>
bookingVars == <<bookings, guests, inflight, lastStep>>
paymentVars == <<payments, assets, now, lastPay>>
vars == <<priceVars, bookingVars, paymentVars>>

BookingIdle ==
    /\ bookings = <<>>
    /\ guests = <<>>
    /\ inflight = Idle
    /\ lastStep = NoStep

PaymentIdle ==
    /\ payments = <<>>
    /\ assets = <<>>
    /\ now = 1
    /\ lastPay = NoProposal


PriceIdle ==
    /\ property = PropertyTable[1]
    /\ checkIn = 0
    /\ checkOut = 0
    /\ pricePeriods = <<>>
    /\ estimates = NoEstimate
    /\ estimates007 = NoEstimate
    /\ estimates006 = NoEstimate
    /\ called = {}

PriceInit ==
    /\ property \in Properties
    /\ checkIn \in 0..MaxCheckIn
    /\ \E n \in StayLengths : checkOut = checkIn + n
    /\ checkOut >= 0
    /\ pricePeriods = <<>>
    /\ estimates = NoEstimate
    /\ estimates007 = NoEstimate
    /\ estimates006 = NoEstimate
    /\ called = {}
    /\ BookingIdle
    /\ PaymentIdle

ServerCalculate ==
    /\ "server" \notin called
    /\ pricePeriods' = calculatePricePeriods(property, checkIn, checkOut)
    /\ called' = called \cup {"server"}
    /\ UNCHANGED <<property, checkIn, checkOut, estimates, estimates007, estimates006,
                   bookingVars, paymentVars>>

ClientEstimate ==
    /\ "server" \in called
    /\ "client" \notin called
    /\ estimates' = PaymentEstimator(property, checkIn, checkOut)
    /\ estimates007' = Part007Estimator(property, checkIn, checkOut)
    /\ estimates006' = Part006Estimator(property, checkIn, checkOut)
    /\ called' = called \cup {"client"}
    /\ UNCHANGED <<property, checkIn, checkOut, pricePeriods, bookingVars, paymentVars>>

PriceNext == ServerCalculate \/ ClientEstimate

SpecPrice == PriceInit /\ [][PriceNext]_vars

\* ------------------------------------------------ the loops, pass by pass
\* currentDate of a loop that has pushed the given periods
LoopCursor(periods) ==
    IF periods = <<>> THEN checkIn ELSE periods[Len(periods)].endDate

\* mutant: a pass of the server's loop that pushes nothing and leaves
\* currentDate where it is (the daily branch with remainingDaysCount = 0)
ServerLoopPass_NoPush ==
    /\ "server" \notin called
    /\ LoopCursor(pricePeriods) < checkOut
    /\ UNCHANGED vars

\* one pass of while (currentDate < endDate) of the server's calculatePricePeriods
ServerLoopPass ==
    /\ "server" \notin called
    /\ LoopCursor(pricePeriods) < checkOut
    /\ pricePeriods' = Append(pricePeriods,
           ServerNextPeriod(property, LoopCursor(pricePeriods), checkOut, Len(pricePeriods)))
    /\ UNCHANGED <<property, checkIn, checkOut, estimates, estimates007, estimates006,
                   called, bookingVars, paymentVars>>

\* the loop's exit and return periods
ServerLoopReturn ==
    /\ "server" \notin called
    /\ ~(LoopCursor(pricePeriods) < checkOut)
    /\ called' = called \cup {"server"}
    /\ UNCHANGED <<property, checkIn, checkOut, pricePeriods, estimates, estimates007,
                   estimates006, bookingVars, paymentVars>>

\* one pass of the estimator's loop (PaymentEstimator.tsx)
EstimatorLoopPass ==
    /\ "server" \in called
    /\ "client" \notin called
    /\ LoopCursor(estimates.periods) < checkOut
    /\ estimates' = [estimates EXCEPT !.periods = Append(@,
           EstimatorNextPeriod(property, LoopCursor(estimates.periods), checkOut))]
    /\ UNCHANGED <<property, checkIn, checkOut, pricePeriods, estimates007, estimates006,
                   called, bookingVars, paymentVars>>

\* the estimator's loop exit; the useMemo then adds deposit and total
EstimatorLoopReturn ==
    /\ "server" \in called
    /\ "client" \notin called
    /\ ~(LoopCursor(estimates.periods) < checkOut)
    /\ estimates' = [periods |-> estimates.periods,
                     deposit |-> EstimatorDeposit(property, estimates.periods),
                     total |-> SumAmount(estimates.periods)
                               + EstimatorDeposit(property, estimates.periods)]
    /\ called' = called \cup {"client"}
    /\ UNCHANGED <<property, checkIn, checkOut, pricePeriods, estimates007, estimates006,
                   bookingVars, paymentVars>>

LoopNext ==
    \/ ServerLoopPass
    \/ ServerLoopReturn
    \/ EstimatorLoopPass
    \/ EstimatorLoopReturn

\* the calls run to completion: a loop that can take a pass takes it
SpecLoop == PriceInit /\ [][LoopNext]_vars /\ WF_vars(LoopNext)

\* the empty store: no pricing call, no rows, no request in flight
StoreInit == PriceIdle /\ BookingIdle /\ PaymentIdle

\* -------------------------------------------------------- booking handlers
\* mutant: the guest inserted outside the transaction
PostGuests_NoTransaction(propertyId, from, to, bookingReference, fails) ==
    /\ Len(guests) < MaxGuests
    /\ Len(bookings) < MaxBookings
    /\ IF fails = "guest"
       THEN /\ UNCHANGED <<guests, bookings>>
            /\ lastStep' = RequestStep("guests", propertyId, from, to, 500)
       ELSE /\ guests' = Append(guests, Guest(propertyId, from, to, bookingReference))
            /\ IF fails = "none" /\ propertyId \in PropertyIds
               THEN /\ bookings' = Append(bookings,
                          [Booking(propertyId, Len(guests) + 1, from, to, "pending",
                               SumAmount(calculatePricePeriods(PropertyTable[propertyId],
                                                               from, to)))
                           EXCEPT !.bookingReference = bookingReference])
                    /\ lastStep' = RequestStep("guests", propertyId, from, to, 200)
               ELSE /\ UNCHANGED bookings
                    /\ lastStep' = RequestStep("guests", propertyId, from, to, 500)
    /\ UNCHANGED <<inflight, priceVars, paymentVars>>

\* POST /api/guests: one transaction inserts the guest, reads the property,
\* prices the stay and inserts the pending booking; a missing property or a
\* failing insert throws, the transaction rolls back and the answer is 500
PostGuests(propertyId, from, to, bookingReference, fails) ==
    /\ Len(guests) < MaxGuests
    /\ Len(bookings) < MaxBookings
    /\ IF fails = "none" /\ propertyId \in PropertyIds
       THEN /\ guests' = Append(guests, Guest(propertyId, from, to, bookingReference))
            /\ bookings' = Append(bookings,
                  [Booking(propertyId, Len(guests) + 1, from, to, "pending",
                       SumAmount(calculatePricePeriods(PropertyTable[propertyId], from, to)))
                   EXCEPT !.bookingReference = bookingReference])
            /\ lastStep' = RequestStep("guests", propertyId, from, to, 200)
       ELSE /\ UNCHANGED <<guests, bookings>>
            /\ lastStep' = RequestStep("guests", propertyId, from, to, 500)
    /\ UNCHANGED <<inflight, priceVars, paymentVars>>

\* POST /api/bookings with availability check, first await: the findFirst
PostBookingsCheck(propertyId, from, to, totalAmount) ==
    /\ inflight.pc = "idle"
    /\ Len(bookings) < MaxBookings
    /\ LET conflict == overlappingBookings(bookings, propertyId, from, to)
       IN  /\ inflight' = [pc |-> "checked", propertyId |-> propertyId, checkIn |-> from,
                           checkOut |-> to, totalAmount |-> totalAmount,
                           conflict |-> conflict]
           /\ lastStep' = CheckStep("bookings-check", propertyId, from, to, conflict)
    /\ UNCHANGED <<bookings, guests, priceVars, paymentVars>>

\* ... second await: 400 when a row was found, else the insert (status pending)
PostBookingsInsert ==
    /\ inflight.pc = "checked"
    /\ IF inflight.conflict
       THEN /\ lastStep' = Step("bookings-insert", 400)
            /\ UNCHANGED bookings
       ELSE IF Len(bookings) < MaxBookings
       THEN /\ bookings' = Append(bookings,
                   Booking(inflight.propertyId, 0, inflight.checkIn, inflight.checkOut,
                           "pending", inflight.totalAmount))
            /\ lastStep' = Step("bookings-insert", 200)
       ELSE /\ lastStep' = Step("bookings-insert", 500)
            /\ UNCHANGED bookings
    /\ inflight' = Idle
    /\ UNCHANGED <<guests, priceVars, paymentVars>>

\* mutant: POST /api/bookings without the test of the dates' order
PostBookings_Unvalidated(propertyId, from, to, status, totalAmount) ==
    /\ Len(bookings) < MaxBookings
    /\ bookings' = Append(bookings, Booking(propertyId, 0, from, to, status, totalAmount))
    /\ lastStep' = RequestStep("bookings", propertyId, from, to, 200)
    /\ UNCHANGED <<guests, inflight, priceVars, paymentVars>>

\* POST /api/bookings (current revision): validates the dates' order, then inserts
\* the body as sent, status and totalAmount included
PostBookings(propertyId, from, to, status, totalAmount) ==
    /\ Len(bookings) < MaxBookings
    /\ IF from >= to
       THEN /\ lastStep' = RequestStep("bookings", propertyId, from, to, 400)
            /\ UNCHANGED bookings
       ELSE /\ bookings' = Append(bookings,
                   Booking(propertyId, 0, from, to, status, totalAmount))
            /\ lastStep' = RequestStep("bookings", propertyId, from, to, 200)
    /\ UNCHANGED <<guests, inflight, priceVars, paymentVars>>

\* PATCH /api/bookings/:id: update(bookings).set(req.body); body is a partial row
PatchBooking(id, body) ==
    /\ IF id \in 1..Len(bookings)
       THEN /\ bookings' = [bookings EXCEPT ![id] =
                   [f \in DOMAIN bookings[id] |->
                       IF f \in DOMAIN body THEN body[f] ELSE bookings[id][f]]]
            /\ lastStep' = Step("bookings-patch", 200)
       ELSE /\ lastStep' = Step("bookings-patch", 404)
            /\ UNCHANGED bookings
    /\ UNCHANGED <<guests, inflight, priceVars, paymentVars>>

\* POST /api/properties/:id/check-availability
CheckAvailability(propertyId, from, to) ==
    /\ lastStep' = CheckStep("check-availability", propertyId, from, to,
                             overlappingGuests(guests, propertyId, from, to))
    /\ UNCHANGED <<bookings, guests, inflight, priceVars, paymentVars>>

\* the bodies the clients send
FormTotal(propertyId, s) == calculateTotalAmount(PropertyTable[propertyId], s.checkIn, s.checkOut)
PatchBodies == [status : Statuses] \cup Stays

BookingNext ==
    \/ \E pid \in PropertyIds, s \in Stays :
          PostGuests(pid, s.checkIn, s.checkOut, "BOOKA1B2C3", "none")
    \/ \E pid \in PropertyIds, s \in Stays :
          PostBookingsCheck(pid, s.checkIn, s.checkOut, FormTotal(pid, s))
    \/ PostBookingsInsert
    \/ \E pid \in PropertyIds, s \in Stays, st \in Statuses :
          PostBookings(pid, s.checkIn, s.checkOut, st, FormTotal(pid, s))
    \/ \E id \in 1..(MaxBookings + 1), body \in PatchBodies : PatchBooking(id, body)
    \/ \E pid \in PropertyIds, s \in Stays : CheckAvailability(pid, s.checkIn, s.checkOut)

SpecBooking == StoreInit /\ [][BookingNext]_vars

\* the stays the totals are checked on: 10-20 January and 1 January-10 February
LongStays == {[checkIn |-> 9, checkOut |-> 19], [checkIn |-> 0, checkOut |-> 40]}

\* stays that are no stays: 15 January to 10 January, 15 January to 15 January
InvalidStays == {[checkIn |-> 14, checkOut |-> 9], [checkIn |-> 14, checkOut |-> 14]}

TotalsNext ==
    \/ \E pid \in PropertyIds \cup UnknownPropertyIds, s \in LongStays \cup InvalidStays,
          ref \in References, f \in {"none", "guest", "booking"} :
          PostGuests(pid, s.checkIn, s.checkOut, ref, f)
    \/ \E pid \in PropertyIds, s \in LongStays \cup InvalidStays, st \in Statuses :
          PostBookings(pid, s.checkIn, s.checkOut, st, FormTotal(pid, s))
    \/ \E id \in 1..(MaxBookings + 1), body \in [status : Statuses] : PatchBooking(id, body)

SpecTotals == StoreInit /\ [][TotalsNext]_vars

\* GET /api/properties/:id/availability (current revision)
GetAvailability(propertyId, startDate, endDate) ==
    /\ lastStep' = ListingStep("availability", propertyId, startDate, endDate,
                       availabilityDates(bookings, propertyId, startDate, endDate, FALSE))
    /\ UNCHANGED <<bookings, guests, inflight, priceVars, paymentVars>>

\* GET /api/properties/:id/availability (earlier revision, isWithinInterval)
GetAvailabilityEarlier(propertyId, startDate, endDate) ==
    /\ lastStep' = ListingStep("availability-earlier", propertyId, startDate, endDate,
                       availabilityDates(bookings, propertyId, startDate, endDate, TRUE))
    /\ UNCHANGED <<bookings, guests, inflight, priceVars, paymentVars>>

\* the listing's query ranges: 8-21 January, 14-15 January, and one reversed
ListingRanges == {[start |-> 7, end |-> 20], [start |-> 13, end |-> 14],
                  [start |-> 14, end |-> 13]}

AvailabilityNext ==
    \/ \E pid \in PropertyIds, s \in Stays, st \in Statuses :
          PostBookings(pid, s.checkIn, s.checkOut, st, FormTotal(pid, s))
    \/ \E id \in 1..(MaxBookings + 1), body \in [status : Statuses] : PatchBooking(id, body)
    \/ \E pid \in PropertyIds, r \in ListingRanges : GetAvailability(pid, r.start, r.end)
    \/ \E pid \in PropertyIds, r \in ListingRanges : GetAvailabilityEarlier(pid, r.start, r.end)

SpecAvailability == StoreInit /\ [][AvailabilityNext]_vars

\* the date ranges the overlap relation is tried on: all within 10-14 January
OverlapRanges ==
    {r \in [checkIn : 9..13, checkOut : 9..13] : r.checkIn < r.checkOut}

OverlapNext ==
    \/ \E r \in OverlapRanges :
          PostBookingsCheck(1, r.checkIn, r.checkOut, FormTotal(1, r))
    \/ PostBookingsInsert
    \/ \E id \in 1..(MaxBookings + 1) : PatchBooking(id, [status |-> "confirmed"])

SpecOverlap == StoreInit /\ [][OverlapNext]_vars

\* -------------------------------------------------------- payment handlers
Tick == now' = now + 1

\* POST /api/payments: inserts the row, then (a second statement, outside any
\* transaction) the asset when the body's status is 'confirmed'; fails names
\* the statement the store fails on
PostPayments(status, method, period, fails) ==
    /\ now <= MaxRequests
    /\ Len(payments) < MaxPayments
    /\ LET row == Payment(status, method, {period}, Null,
                          IF status = "confirmed" THEN now ELSE 0)
       IN  IF fails = "payment"
           THEN UNCHANGED <<payments, assets>>
           ELSE /\ payments' = Append(payments, row)
                /\ IF status = "confirmed" /\ fails # "asset"
                   THEN assets' = Append(assets, Asset(row, Len(payments) + 1))
                   ELSE UNCHANGED assets
    /\ Tick
    /\ lastPay' = NoProposal
    /\ UNCHANGED <<priceVars, bookingVars>>

\* PATCH /api/payments/:id/confirm: one transaction updates the row whatever its
\* status and inserts the asset; a missing row or a failing statement throws
\* and rolls both back
ConfirmPayment(id, confirmedBy, fails) ==
    /\ now <= MaxRequests
    /\ IF id \in 1..Len(payments) /\ fails = "none"
       THEN LET updatedPayment == [payments[id] EXCEPT !.status = "confirmed",
                                       !.confirmedBy = confirmedBy, !.confirmedAt = now]
            IN  /\ payments' = [payments EXCEPT ![id] = updatedPayment]
                /\ assets' = Append(assets, Asset(updatedPayment, id))
       ELSE UNCHANGED <<payments, assets>>
    /\ Tick
    /\ lastPay' = NoProposal
    /\ UNCHANGED <<priceVars, bookingVars>>

\* mutant: the payment form posts the payment without looking at hasPriorUnpaid
handlePayment_Unchecked(method, proposedPeriodIndex, full) ==
    /\ now <= MaxRequests
    /\ Len(payments) < MaxPayments
    /\ LET row == processPayment(payments, method, proposedPeriodIndex, full, now)
       IN  /\ payments' = Append(payments, row)
           /\ assets' = Append(assets, Asset(row, Len(payments) + 1))
    /\ Tick
    /\ lastPay' = [kind |-> "handlePayment", period |-> proposedPeriodIndex, full |-> full]
    /\ UNCHANGED <<priceVars, bookingVars>>

\* PaymentForm.handlePayment: asks for the unpaid periods, gives up when a prior
\* period is unpaid, else posts the payment as confirmed
handlePayment(method, proposedPeriodIndex, full) ==
    /\ now <= MaxRequests
    /\ Len(payments) < MaxPayments
    /\ IF unpaidPeriods(payments, proposedPeriodIndex, full).hasPriorUnpaid
       THEN UNCHANGED <<payments, assets>>
       ELSE LET row == processPayment(payments, method, proposedPeriodIndex, full, now)
            IN  /\ payments' = Append(payments, row)
                /\ assets' = Append(assets, Asset(row, Len(payments) + 1))
    /\ Tick
    /\ lastPay' = [kind |-> "handlePayment", period |-> proposedPeriodIndex, full |-> full]
    /\ UNCHANGED <<priceVars, bookingVars>>

StoreFailures == {"none", "payment", "asset"}

PaymentNext ==
    \/ \E st \in PaymentStatuses, m \in Methods, k \in PeriodIndexes, f \in StoreFailures :
          PostPayments(st, m, k, f)
    \/ \E id \in 1..(MaxPayments + 1), by \in Managers, f \in StoreFailures :
          ConfirmPayment(id, by, f)
    \/ \E m \in Methods, k \in PeriodIndexes, full \in BOOLEAN : handlePayment(m, k, full)

SpecPayment == StoreInit /\ [][PaymentNext]_vars

ValidStay == checkIn < checkOut

\* ------------------------------------------------------------------ claims
Covers(periods, from, to) ==
    /\ Len(periods) >= 1
    /\ periods[1].startDate = from
    /\ periods[Len(periods)].endDate = to
    /\ \A i \in 1..Len(periods) : periods[i].startDate < periods[i].endDate
    /\ \A i \in 1..(Len(periods) - 1) : periods[i + 1].startDate = periods[i].endDate

\* C1: for every valid stay the periods returned by calculatePricePeriods (the
\* server's and the estimator's) are contiguous, non-overlapping and cover
\* exactly [checkIn, checkOut).
C1_Coverage ==
    ValidStay =>
        /\ "server" \in called => Covers(pricePeriods, checkIn, checkOut)
        /\ "client" \in called => Covers(estimates.periods, checkIn, checkOut)

C1_Witness ==
    /\ ValidStay
    /\ called = {"server", "client"}
    /\ Len(pricePeriods) >= 3
    /\ Len(estimates.periods) >= 3
    /\ pricePeriods[1].type = "monthly"
    /\ getDate(checkIn) > 1

\* C6: the period at 0-based position i has discountPercent = min(i * 10, 50)
\* and amount = baseRate * (1 - discountPercent / 100), whatever its tier; the
\* percentage never decreases along the sequence.
C6_PositionalDiscount ==
    "server" \in called =>
        /\ \A i \in 1..Len(pricePeriods) :
              /\ pricePeriods[i].discountPercent = Min((i - 1) * 10, 50)
              /\ pricePeriods[i].amount * 100 =
                     pricePeriods[i].baseRate * (100 - pricePeriods[i].discountPercent)
        /\ \A i \in 1..(Len(pricePeriods) - 1) :
              pricePeriods[i].discountPercent <= pricePeriods[i + 1].discountPercent

\* a 7-period booking: periods 5 and 6 (0-based) both at exactly 50%
C6_Witness ==
    /\ "server" \in called
    /\ Len(pricePeriods) = 7
    /\ pricePeriods[6].discountPercent = 50
    /\ pricePeriods[7].discountPercent = 50
    /\ pricePeriods[6].type # pricePeriods[7].type

DepositByTierUsed(p, periods) ==
    IF HasPeriod(periods, "monthly") THEN p.monthlyRate
    ELSE IF HasPeriod(periods, "weekly") THEN p.weeklyRate
    ELSE p.rate * 7

\* C9: the deposit computed for a stay is the monthly rate if the stay's
\* decomposition contains a monthly period, else the weekly rate if it contains
\* a weekly period, else nightlyRate * 7 (both estimators).
C9_DepositByTierUsed ==
    (ValidStay /\ "client" \in called) =>
        /\ estimates.deposit = DepositByTierUsed(property, estimates.periods)
        /\ estimates007.deposit = DepositByTierUsed(property, estimates007.periods)

\* the part of C9 that PaymentEstimator.tsx decides
C9_EstimatorDepositByTierUsed ==
    (ValidStay /\ "client" \in called) =>
        estimates.deposit = DepositByTierUsed(property, estimates.periods)

\* a property with a monthly rate whose stay uses no monthly period
C9_Witness ==
    /\ ValidStay
    /\ "client" \in called
    /\ property.monthlyRate # 0
    /\ ~HasPeriod(estimates.periods, "monthly")
    /\ estimates.deposit # property.monthlyRate

Scenario ==
    /\ property = [rate |-> 100, weeklyRate |-> 600, monthlyRate |-> 2000]
    /\ checkIn = 0
    /\ checkOut = 40
    /\ called = {"server", "client"}

ScenarioPeriods ==
    << [type |-> "monthly", startDate |-> 0, endDate |-> 31, baseRate |-> 2000,
        discountPercent |-> 0, amount |-> 2000, duration |-> 1],
       [type |-> "weekly", startDate |-> 31, endDate |-> 38, baseRate |-> 600,
        discountPercent |-> 10, amount |-> 540, duration |-> 1],
       [type |-> "daily", startDate |-> 38, endDate |-> 40, baseRate |-> 200,
        discountPercent |-> 20, amount |-> 160, duration |-> 2] >>

\* C10: nightly 100, weekly 600, monthly 2000, 40 days from 1 January: three
\* periods (monthly 2000 at 0%, weekly 600 at 10% = 540, daily 2 days 200 at
\* 20% = 160), accommodation 2700, deposit 2000, grand total 4700.
C10_ConcreteScenario ==
    Scenario =>
        /\ pricePeriods = ScenarioPeriods
        /\ SumAmount(pricePeriods) = 2700
        /\ estimates.deposit = 2000
        /\ estimates.total = 4700

\* the parts of C10 the code agrees with
C10_PeriodsAndDeposit ==
    Scenario =>
        /\ pricePeriods = ScenarioPeriods
        /\ SumAmount(pricePeriods) = 2700
        /\ estimates.deposit = 2000

C10_Witness == Scenario /\ estimates.total = 4800

\* ------------------------------------------------------------ booking store
HalfOpenOverlap(aStart, aEnd, bStart, bEnd) == aStart < bEnd /\ bStart < aEnd

ConfirmedOverlap(i, j) ==
    /\ bookings[i].status = "confirmed"
    /\ bookings[j].status = "confirmed"
    /\ bookings[i].propertyId = bookings[j].propertyId
    /\ HalfOpenOverlap(bookings[i].checkIn, bookings[i].checkOut,
                       bookings[j].checkIn, bookings[j].checkOut)

\* C2: no two confirmed bookings of the same property have overlapping
\* [checkIn, checkOut) ranges, whatever the interleaving of booking creations
\* and status updates.
C2_NoDoubleBooking ==
    \A i \in 1..Len(bookings), j \in 1..Len(bookings) : i # j => ~ConfirmedOverlap(i, j)

\* two bookings of one property with overlapping ranges, both confirmed, the
\* second one by PATCH /api/bookings/:id
C2_Witness ==
    /\ Len(bookings) = 2
    /\ ConfirmedOverlap(1, 2)
    /\ lastStep.kind = "bookings-patch"

\* the half-open answer for the candidate of the last availability check
HalfOpenConflict ==
    IF lastStep.kind = "bookings-check"
    THEN \E i \in 1..Len(bookings) :
            /\ bookings[i].propertyId = lastStep.propertyId
            /\ bookings[i].status = "confirmed"
            /\ HalfOpenOverlap(lastStep.checkIn, lastStep.checkOut,
                               bookings[i].checkIn, bookings[i].checkOut)
    ELSE \E i \in 1..Len(guests) :
            /\ guests[i].propertyId = lastStep.propertyId
            /\ HalfOpenOverlap(lastStep.checkIn, lastStep.checkOut,
                               guests[i].checkIn, guests[i].checkOut)

\* C5: the availability test reports a conflict exactly when the candidate and
\* an existing stay overlap as half-open ranges (aStart < bEnd and
\* bStart < aEnd); a candidate starting on an existing check-out day is free.
C5_HalfOpenOverlap ==
    lastStep.kind \in {"bookings-check", "check-availability"} =>
        (lastStep.conflict <=> HalfOpenConflict)

\* candidate 15-20 January checked against a stay of 10-15 January
C5_Witness ==
    /\ lastStep.kind = "check-availability"
    /\ lastStep.checkIn = 14 /\ lastStep.checkOut = 19
    /\ \E i \in 1..Len(guests) :
          /\ guests[i].propertyId = lastStep.propertyId
          /\ guests[i].checkIn = 9 /\ guests[i].checkOut = 14

\* the part of C5 the code agrees with: an overlapping candidate (14-20 January
\* against 10-15 January) is reported unavailable
C5_OverlapReported ==
    lastStep.kind \in {"bookings-check", "check-availability"} =>
        (HalfOpenConflict => lastStep.conflict)

PricedTotal(b) ==
    SumAmount(calculatePricePeriods(PropertyTable[b.propertyId], b.checkIn, b.checkOut))

\* C8: every stored booking's totalAmount is the sum of the discounted amounts
\* of the periods of its own property over its own stay, for bookings created
\* by POST /api/guests and by POST /api/bookings.
C8_TotalIsPricedSum ==
    \A i \in 1..Len(bookings) : bookings[i].totalAmount = PricedTotal(bookings[i])

\* a booking of a property with a weekly rate, created by POST /api/bookings
C8_Witness ==
    /\ lastStep.kind = "bookings" /\ lastStep.code = 200
    /\ bookings[Len(bookings)].propertyId = 1
    /\ bookings[Len(bookings)].checkIn = 9 /\ bookings[Len(bookings)].checkOut = 19

\* the part of C8 the code agrees with: bookings created by guest registration
\* carry the priced total
C8_GuestTotalIsPricedSum ==
    \A i \in 1..Len(bookings) :
        bookings[i].guestId # 0 => bookings[i].totalAmount = PricedTotal(bookings[i])

\* ------------------------------------------------------------ payment store
\* C3: the periods with a confirmed payment form a prefix of the booking's
\* periods: if period k has no confirmed payment, no later period has one.
C3_PaidPrefix ==
    \A k \in PeriodIndexes : k \notin PaidPeriods(payments) =>
        \A k2 \in PeriodIndexes : k2 > k => k2 \notin PaidPeriods(payments)

\* a later period confirmed through PATCH confirm while period 0 is unpaid
C3_Witness ==
    /\ 0 \notin PaidPeriods(payments)
    /\ \E i \in 1..Len(payments) :
          /\ payments[i].status = "confirmed"
          /\ payments[i].confirmedBy \in Managers
          /\ payments[i].covers = {1}

HasAsset(id) == \E a \in 1..Len(assets) : assets[a].paymentId = id

\* C4: confirmation is atomic with its ledger entry: no state has a confirmed
\* payment without an asset entry, for PATCH confirm and for POST /api/payments
\* with status 'confirmed'.
C4_ConfirmedHasAsset ==
    \A i \in 1..Len(payments) : payments[i].status = "confirmed" => HasAsset(i)

\* a payment posted as confirmed whose asset insert failed
C4_Witness ==
    \E i \in 1..Len(payments) :
        /\ payments[i].status = "confirmed"
        /\ payments[i].confirmedBy = Null
        /\ ~HasAsset(i)

\* the part of C4 the code agrees with: a payment confirmed by PATCH confirm
\* always has its asset entry
C4_PatchConfirmIsAtomic ==
    \A i \in 1..Len(payments) : payments[i].confirmedBy \in Managers => HasAsset(i)

C7_WitnessNext ==
    /\ PaidPeriods(payments) = {0, 1}
    /\ lastPay = [kind |-> "handlePayment", period |-> 1, full |-> FALSE]

\* ... the full remainder (periods 1 and 2) proposed and recorded
C7_WitnessFull ==
    /\ Len(payments) = 2
    /\ payments[1].covers = {0} /\ payments[2].covers = {1, 2}
    /\ lastPay.kind = "handlePayment" /\ lastPay.full

\* ------------------------------------------------------ availability listing
\* day d lies inside a confirmed booking's [checkIn, checkOut) of the property
DayBooked(propertyId, d) ==
    \E i \in 1..Len(bookings) :
        /\ bookings[i].propertyId = propertyId
        /\ bookings[i].status = "confirmed"
        /\ bookings[i].checkIn <= d /\ d < bookings[i].checkOut

ListingIsExact ==
    /\ Len(lastStep.dates) =
          IF lastStep.checkIn <= lastStep.checkOut
          THEN lastStep.checkOut - lastStep.checkIn + 1 ELSE 0
    /\ \A k \in 1..Len(lastStep.dates) :
          /\ lastStep.dates[k].date = lastStep.checkIn + k - 1
          /\ lastStep.dates[k].available <=> ~DayBooked(lastStep.propertyId, lastStep.dates[k].date)

\* C11: the availability listing has one entry per day of [rangeStart,
\* rangeEnd] in ascending order, and a day is unavailable iff it lies inside a
\* confirmed booking's [checkIn, checkOut) of the property; a check-out day is
\* available unless another confirmed booking covers it.
C11_ListingIsExact ==
    lastStep.kind \in {"availability", "availability-earlier"} => ListingIsExact

\* a listing of 8-21 January over a confirmed booking of 10-15 January
C11_Witness ==
    /\ lastStep.kind = "availability-earlier"
    /\ lastStep.checkIn = 7 /\ lastStep.checkOut = 20
    /\ \E i \in 1..Len(bookings) :
          /\ bookings[i].propertyId = lastStep.propertyId
          /\ bookings[i].status = "confirmed"
          /\ bookings[i].checkIn = 9 /\ bookings[i].checkOut = 14

\* the part of C11 the code agrees with: the current revision's listing
C11_CurrentListingIsExact ==
    lastStep.kind = "availability" => ListingIsExact

\* ------------------------------------------------- who blocks availability
\* the guest record has a confirmed booking
GuestHasConfirmed(g) ==
    \E j \in 1..Len(bookings) : bookings[j].guestId = g /\ bookings[j].status = "confirmed"

\* the check's answer when every pending or cancelled booking, and every guest
\* record without a confirmed booking, is taken out of the store
ConflictWithoutUnconfirmed ==
    IF lastStep.kind = "bookings-check"
    THEN overlappingBookings(SelectSeq(bookings, LAMBDA b : b.status = "confirmed"),
                             lastStep.propertyId, lastStep.checkIn, lastStep.checkOut)
    ELSE \E g \in 1..Len(guests) :
            /\ GuestHasConfirmed(g)
            /\ overlappingGuests(<<guests[g]>>, lastStep.propertyId,
                                 lastStep.checkIn, lastStep.checkOut)

\* C12: only confirmed bookings make a property unavailable: pending or
\* cancelled bookings, and guest records with no confirmed booking, never
\* change the answer of the availability check or of booking creation.
C12_OnlyConfirmedBlock ==
    lastStep.kind \in {"bookings-check", "check-availability"} =>
        (lastStep.conflict <=> ConflictWithoutUnconfirmed)

\* an availability check answered while the only guest's booking is pending
C12_Witness ==
    /\ lastStep.kind = "check-availability"
    /\ lastStep.conflict
    /\ Len(guests) = 1 /\ ~GuestHasConfirmed(1)
    /\ \E j \in 1..Len(bookings) : bookings[j].guestId = 1 /\ bookings[j].status = "pending"

\* the part of C12 the code agrees with: the check of booking creation
C12_BookingCheckOnlyConfirmed ==
    lastStep.kind = "bookings-check" => (lastStep.conflict <=> ConflictWithoutUnconfirmed)

\* ------------------------------------------------------------ invalid stays
\* C13: decomposing a stay with checkIn >= checkOut fails: calculatePricePeriods
\* returns no period list, not even an empty one, for such a stay.
C13_InvalidStayFails ==
    ~("server" \in called /\ ~ValidStay /\ Len(pricePeriods) >= 0)

\* calculatePricePeriods has returned the empty list for a reversed stay
C13_Witness ==
    /\ "server" \in called
    /\ checkIn > checkOut
    /\ pricePeriods = <<>>

\* C13, guest registration: no stored booking is priced from a stay with
\* checkIn >= checkOut
C13_NoGuestBookingOfInvalidStay ==
    \A i \in 1..Len(bookings) :
        bookings[i].guestId # 0 => bookings[i].checkIn < bookings[i].checkOut

\* C14: POST /api/bookings with checkIn >= checkOut answers a client error and
\* leaves the bookings unchanged; otherwise the stored booking has the dates
\* exactly as submitted, never swapped or corrected.
C14_ReversedDatesRejected ==
    [][lastStep'.kind = "bookings" =>
          IF lastStep'.checkIn >= lastStep'.checkOut
          THEN lastStep'.code = 400 /\ bookings' = bookings
          ELSE /\ lastStep'.code = 200
               /\ Len(bookings') = Len(bookings) + 1
               /\ SubSeq(bookings', 1, Len(bookings)) = bookings
               /\ bookings'[Len(bookings')].checkIn = lastStep'.checkIn
               /\ bookings'[Len(bookings')].checkOut = lastStep'.checkOut
               /\ bookings'[Len(bookings')].checkIn < bookings'[Len(bookings')].checkOut]_vars

\* POST /api/bookings for 15 January to 10 January, answered 400, after a
\* booking was stored
C14_Witness ==
    /\ lastStep.kind = "bookings"
    /\ lastStep.checkIn = 14 /\ lastStep.checkOut = 9
    /\ lastStep.code = 400
    /\ Len(bookings) = 1

\* ------------------------------------------------------ confirmed bookings
\* C15: once a booking is confirmed no operation changes its checkIn, checkOut
\* or totalAmount; a cancellation changes only its status.
C15_ConfirmedIsImmutable ==
    [][\A i \in 1..Len(bookings) :
          bookings[i].status = "confirmed" =>
              /\ bookings'[i].checkIn = bookings[i].checkIn
              /\ bookings'[i].checkOut = bookings[i].checkOut
              /\ bookings'[i].totalAmount = bookings[i].totalAmount]_vars

\* a confirmed booking whose stay was replaced by PATCH /api/bookings/:id: it
\* is for 14-20 January and still carries the total of the 5 nights it was
\* created with
C15_Witness ==
    /\ lastStep.kind = "bookings-patch"
    /\ \E i \in 1..Len(bookings) :
          /\ bookings[i].status = "confirmed"
          /\ bookings[i].checkIn = 13 /\ bookings[i].checkOut = 19
          /\ bookings[i].totalAmount = 500

\* ------------------------------------------------------- confirm a payment
\* C16: confirm only moves a payment from pending to confirmed; a payment that
\* is already confirmed, or is refunded, is not changed by a confirm request:
\* its status, confirmedAt and confirmedBy stay as they were.
C16_ConfirmOnlyPending ==
    [][\A i \in 1..Len(payments) :
          payments[i].status \in {"confirmed", "refunded"} =>
              /\ payments'[i].status = payments[i].status
              /\ payments'[i].confirmedAt = payments[i].confirmedAt
              /\ payments'[i].confirmedBy = payments[i].confirmedBy]_vars

\* a payment posted as confirmed and confirmed again by PATCH confirm: it has
\* two asset entries
C16_Witness ==
    \E i \in 1..Len(payments) :
        /\ payments[i].status = "confirmed"
        /\ payments[i].confirmedBy \in Managers
        /\ \E a, b \in 1..Len(assets) :
              a # b /\ assets[a].paymentId = i /\ assets[b].paymentId = i

\* the part of C16 the code agrees with: confirming a pending payment makes it
\* confirmed and stamps confirmedAt and confirmedBy
C16_PendingBecomesConfirmed ==
    [][\A i \in 1..Len(payments) :
          (payments[i].status = "pending" /\ payments'[i] # payments[i]) =>
              /\ payments'[i].status = "confirmed"
              /\ payments'[i].confirmedAt = now
              /\ payments'[i].confirmedBy \in Managers]_vars

\* ------------------------------------------------- deposit, two statements
\* C17: the deposit as the largest baseRate among the periods used (part_006)
\* equals the deposit by tier precedence (monthly rate if a monthly period is
\* used, else weekly rate if a weekly period is used, else nightly rate * 7),
\* for all rate schedules and stays.
C17_DepositStatementsAgree ==
    (ValidStay /\ "client" \in called) =>
        /\ estimates006.deposit = estimates.deposit
        /\ estimates006.deposit = DepositByTierUsed(property, estimates006.periods)

\* a stay of daily periods only, where the largest baseRate is the nightly rate
C17_Witness ==
    /\ ValidStay
    /\ "client" \in called
    /\ Len(estimates006.periods) = 1
    /\ estimates006.periods[1].type = "daily"
    /\ estimates006.deposit = property.rate
    /\ estimates.deposit = property.rate * 7

\* the part of C17 the code agrees with: on a stay that uses a weekly or a
\* monthly period the largest baseRate is the rate of the highest tier used
C17_AgreeOnPackages ==
    (ValidStay /\ "client" \in called
        /\ (HasPeriod(estimates006.periods, "monthly") \/ HasPeriod(estimates006.periods, "weekly"))) =>
            estimates006.deposit = DepositByTierUsed(property, estimates006.periods)

\* ------------------------------------------------------------ daily periods
\* the server's result is one daily period over the whole stay
OneDailyPeriod ==
    /\ Len(pricePeriods) = 1
    /\ pricePeriods[1].type = "daily"
    /\ pricePeriods[1].startDate = checkIn
    /\ pricePeriods[1].endDate = checkOut
    /\ pricePeriods[1].baseRate = property.rate * (checkOut - checkIn)

\* C18: for every rate schedule and every stay of 1 to 6 days, whatever the
\* check-in date and also across a month boundary, calculatePricePeriods
\* returns exactly one daily period over [checkIn, checkOut) with base amount
\* nightly rate * days.
C18_ShortStayIsOneDaily ==
    ("server" \in called /\ checkOut - checkIn \in 1..6) => OneDailyPeriod

\* a stay of 1 to 6 days into the next month, priced for a property with a
\* monthly rate
C18_Witness ==
    /\ "server" \in called
    /\ checkOut - checkIn \in 1..6
    /\ getMonth[checkOut] # getMonth[checkIn]
    /\ property.monthlyRate # 0
    /\ pricePeriods[1].type = "monthly"

\* the part of C18 the code agrees with: short stays inside one calendar month,
\* or of a property without a monthly rate
C18_ShortStayInsideMonth ==
    ("server" \in called /\ checkOut - checkIn \in 1..6
        /\ (getMonth[checkOut] = getMonth[checkIn] \/ property.monthlyRate = 0)) =>
            OneDailyPeriod

\* C19: for a property with the nightly rate only, calculatePricePeriods
\* returns for every valid stay exactly one daily period over
\* [checkIn, checkOut) with base amount nightly rate * days and discount 0%.
C19_NightlyOnlyIsOneDaily ==
    ("server" \in called /\ ValidStay
        /\ property.weeklyRate = 0 /\ property.monthlyRate = 0) =>
            /\ OneDailyPeriod
            /\ pricePeriods[1].discountPercent = 0
            /\ pricePeriods[1].amount = pricePeriods[1].baseRate

\* a stay of more than a month and a week priced at the nightly rate only
C19_Witness ==
    /\ "server" \in called
    /\ property.weeklyRate = 0 /\ property.monthlyRate = 0
    /\ checkOut - checkIn > 38
    /\ getMonth[checkOut] # getMonth[checkIn]
    /\ Len(pricePeriods) = 1

\* ------------------------------------------------------- overlap relation
\* the check's answer with the roles exchanged: some confirmed booking B of the
\* property, taken as the candidate, conflicts with A stored as a booking
ConflictExchanged ==
    \E i \in 1..Len(bookings) :
        /\ bookings[i].propertyId = lastStep.propertyId
        /\ bookings[i].status = "confirmed"
        /\ overlappingBookings(
               <<Booking(lastStep.propertyId, 0, lastStep.checkIn, lastStep.checkOut,
                         "confirmed", 0)>>,
               lastStep.propertyId, bookings[i].checkIn, bookings[i].checkOut)

C20_WitnessApart ==
    /\ lastStep.kind = "bookings-check"
    /\ ~lastStep.conflict
    /\ \E i \in 1..Len(bookings) :
          bookings[i].status = "confirmed" /\ bookings[i].checkOut < lastStep.checkIn

\* ----------------------------------------------------------- monthly periods
\* every monthly period of the list is a complete calendar month of the stay
MonthliesAreComplete(periods) ==
    \A i \in 1..Len(periods) :
        periods[i].type = "monthly" =>
            /\ property.monthlyRate # 0
            /\ periods[i].endDate = addMonths(periods[i].startDate, 1)
            /\ addMonths(periods[i].startDate, 1) <= checkOut

\* C21: a monthly period is emitted at cursor d only if the monthly rate is set
\* and d + 1 month is on or before checkOut, and it covers exactly
\* [d, d + 1 month); never a span shorter than a calendar month.
C21_MonthlyIsCompleteMonth ==
    /\ ("server" \in called /\ ValidStay) => MonthliesAreComplete(pricePeriods)
    /\ ("client" \in called /\ ValidStay) => MonthliesAreComplete(estimates.periods)

\* 20 January to 5 February priced as one monthly period of 16 days
C21_Witness ==
    /\ "client" \in called
    /\ checkIn = 19 /\ checkOut = 35
    /\ Len(pricePeriods) = 1
    /\ pricePeriods[1].type = "monthly"
    /\ pricePeriods[1].endDate = 35
    /\ estimates.periods[1].type = "monthly"

\* the part of C21 the code agrees with: no monthly period without a monthly
\* rate, and none that ends after d + 1 month or after checkOut
C21_MonthlyWithinMonth ==
    ("server" \in called /\ ValidStay) =>
        \A i \in 1..Len(pricePeriods) :
            pricePeriods[i].type = "monthly" =>
                /\ property.monthlyRate # 0
                /\ pricePeriods[i].endDate <= addMonths(pricePeriods[i].startDate, 1)
                /\ pricePeriods[i].endDate <= checkOut

\* ------------------------------------------------- weekly and daily periods
\* C22: a weekly period is emitted at cursor d exactly when no monthly period
\* is emitted at d, the weekly rate is set and at least 7 days remain before
\* checkOut; it covers exactly [d, d + 7 days) with base amount the weekly rate.
C22_WeeklyExactlyWhenFits ==
    ("server" \in called /\ ValidStay) =>
        \A i \in 1..Len(pricePeriods) :
            LET d == pricePeriods[i].startDate
            IN  /\ pricePeriods[i].type = "weekly" <=>
                      /\ pricePeriods[i].type # "monthly"
                      /\ property.weeklyRate # 0
                      /\ checkOut - d >= 7
                /\ pricePeriods[i].type = "weekly" =>
                      /\ pricePeriods[i].endDate = d + 7
                      /\ pricePeriods[i].baseRate = property.weeklyRate

\* a stay with a weekly period after a monthly one and a daily rest of 6 days
C22_Witness ==
    /\ "server" \in called
    /\ Len(pricePeriods) = 3
    /\ pricePeriods[1].type = "monthly"
    /\ pricePeriods[2].type = "weekly"
    /\ pricePeriods[3].type = "daily"
    /\ checkOut - pricePeriods[3].startDate = 6
    /\ property.weeklyRate # 0

\* C23: the list has at most one daily period; when present it is the last
\* period, covers all remaining days [d, checkOut) and has base amount nightly
\* rate * days of the period.
C23_OneDailyLast ==
    ("server" \in called /\ ValidStay) =>
        \A i \in 1..Len(pricePeriods) :
            pricePeriods[i].type = "daily" =>
                /\ i = Len(pricePeriods)
                /\ pricePeriods[i].endDate = checkOut
                /\ pricePeriods[i].baseRate =
                      property.rate * (checkOut - pricePeriods[i].startDate)
                /\ \A j \in 1..Len(pricePeriods) : pricePeriods[j].type = "daily" => j = i

\* a daily period of more than 7 days at the end of a stay without weekly rate
C23_Witness ==
    /\ "server" \in called
    /\ Len(pricePeriods) = 2
    /\ pricePeriods[1].type = "monthly"
    /\ pricePeriods[2].type = "daily"
    /\ pricePeriods[2].duration > 7

\* ------------------------------------------------------------- greedy rule
\* the greedy rule: a month if the monthly rate is set and d + 1 month is on or
\* before the end, else a week if the weekly rate is set and 7 days remain,
\* else the remaining days; as <<type, start, end>>
RECURSIVE GreedyTiers(_, _, _)
GreedyTiers(p, d, end) ==
    IF ~(d < end) THEN <<>>
    ELSE IF p.monthlyRate # 0 /\ addMonths(d, 1) <= end
    THEN <<<<"monthly", d, addMonths(d, 1)>>>> \o GreedyTiers(p, addMonths(d, 1), end)
    ELSE IF p.weeklyRate # 0 /\ end - d >= 7
    THEN <<<<"weekly", d, d + 7>>>> \o GreedyTiers(p, d + 7, end)
    ELSE <<<<"daily", d, end>>>>

TierSequence(periods) ==
    [i \in 1..Len(periods) |->
        <<periods[i].type, periods[i].startDate, periods[i].endDate>>]

Types(periods) == [i \in 1..Len(periods) |-> periods[i].type]

BoundaryLengths == {7, 30, 35, 45, 65}

\* C24: with all three rates set and a stay starting on the first day of a
\* month, the tiers are those of the greedy monthly-then-weekly-then-daily rule
\* for stays of 7, 30, 35, 45 and 65 days; from 1 January: 7 days is one
\* weekly, 30 days four weeklies and a 2-day daily, 35 days one monthly and a
\* 4-day daily, 65 days two monthlies and a daily.
C24_GreedyOnBoundaryLengths ==
    ("server" \in called /\ getDate(checkIn) = 1
        /\ property.weeklyRate # 0 /\ property.monthlyRate # 0
        /\ checkOut - checkIn \in BoundaryLengths) =>
            /\ TierSequence(pricePeriods) = GreedyTiers(property, checkIn, checkOut)
            /\ checkIn = 0 =>
                  /\ checkOut = 7 => Types(pricePeriods) = <<"weekly">>
                  /\ checkOut = 30 =>
                        /\ Types(pricePeriods) =
                              <<"weekly", "weekly", "weekly", "weekly", "daily">>
                        /\ pricePeriods[5].duration = 2
                  /\ checkOut = 35 =>
                        /\ Types(pricePeriods) = <<"monthly", "daily">>
                        /\ pricePeriods[2].duration = 4
                  /\ checkOut = 45 => Types(pricePeriods) = <<"monthly", "weekly", "weekly">>
                  /\ checkOut = 65 => Types(pricePeriods) = <<"monthly", "monthly", "daily">>

\* the 30-day stay from 1 January, priced
C24_Witness ==
    /\ "server" \in called
    /\ checkIn = 0 /\ checkOut = 30
    /\ property.weeklyRate # 0 /\ property.monthlyRate # 0
    /\ Len(pricePeriods) = 5

\* ... and the 65-day stay from 1 March
C24_WitnessMarch ==
    /\ "server" \in called
    /\ checkIn = 59 /\ checkOut = 124
    /\ property.weeklyRate # 0 /\ property.monthlyRate # 0
    /\ Len(pricePeriods) = 3

\* --------------------------------------------------------------- tier order
TierRank(type) == IF type = "monthly" THEN 3 ELSE IF type = "weekly" THEN 2 ELSE 1

TiersNonIncreasing(periods) ==
    \A i \in 1..(Len(periods) - 1) :
        TierRank(periods[i].type) >= TierRank(periods[i + 1].type)

\* C25: in every returned list the tiers are in non-increasing order: the
\* monthly periods first, then the weekly ones, then the daily one; no monthly
\* period after a weekly or daily one, no weekly period after a daily one.
C25_TiersNonIncreasing ==
    /\ "server" \in called => TiersNonIncreasing(pricePeriods)
    /\ "client" \in called => TiersNonIncreasing(estimates.periods)

\* a stay that starts mid-month and has periods of all three tiers
C25_Witness ==
    /\ "client" \in called
    /\ getDate(checkIn) > 1
    /\ Types(pricePeriods) = <<"monthly", "weekly", "weekly", "daily">>
    /\ Types(estimates.periods) = Types(pricePeriods)

\* -------------------------------------------------------------- termination
\* the call has returned a non-empty list of at most one period per day, each
\* period ending after it starts
ReturnedWithinDays(periods) ==
    /\ Len(periods) >= 1
    /\ Len(periods) <= checkOut - checkIn
    /\ \A i \in 1..Len(periods) : periods[i].startDate < periods[i].endDate

\* C26: for every rate schedule and stay with checkIn < checkOut the loop of
\* calculatePricePeriods terminates, every pass strictly advancing the cursor,
\* and returns a non-empty list no longer than the number of days of the stay
\* (server and estimator).
C26_LoopTerminates ==
    ValidStay ~> /\ "server" \in called /\ ReturnedWithinDays(pricePeriods)
                 /\ "client" \in called /\ ReturnedWithinDays(estimates.periods)

\* both loops have returned after four passes each
C26_Witness ==
    /\ ValidStay
    /\ "client" \in called
    /\ Len(pricePeriods) = 4
    /\ Len(estimates.periods) = 4

\* C26, pass by pass: a pass pushes one period and moves the cursor forward
C26_PassAdvances ==
    [][/\ Len(pricePeriods') > Len(pricePeriods) =>
              LoopCursor(pricePeriods') > LoopCursor(pricePeriods)
       /\ Len(estimates'.periods) > Len(estimates.periods) =>
              LoopCursor(estimates'.periods) > LoopCursor(estimates.periods)]_vars

\* the passes build the lists the functions return
C26_LoopIsTheFunction ==
    /\ "server" \in called => pricePeriods = calculatePricePeriods(property, checkIn, checkOut)
    /\ "client" \in called => estimates = PaymentEstimator(property, checkIn, checkOut)

\* ------------------------------------------------------- assets per payment
AssetsOf(id) == {a \in 1..Len(assets) : assets[a].paymentId = id}

\* C27: after any POST /api/payments and PATCH confirm requests every payment
\* has at most one asset entry: exactly one if confirmed, none otherwise;
\* repeating the confirm request does not add a second entry.
C27_OneAssetPerPayment ==
    \A i \in 1..Len(payments) :
        Cardinality(AssetsOf(i)) = IF payments[i].status = "confirmed" THEN 1 ELSE 0

\* a payment posted pending at tick 1 and confirmed at ticks 2 and 3
C27_Witness ==
    /\ Len(payments) = 1
    /\ payments[1].confirmedAt = 3
    /\ Len(assets) = 2
    /\ assets[1].paymentId = 1 /\ assets[2].paymentId = 1

\* the part of C27 the code agrees with: a payment that is not confirmed has no
\* asset entry
C27_UnconfirmedHasNoAsset ==
    \A i \in 1..Len(payments) : payments[i].status # "confirmed" => AssetsOf(i) = {}

\* ------------------------------------------------------- guest registration
\* C28: guest registration is all-or-nothing: after the request the store has
\* both the new guest row and a pending booking row with the same
\* bookingReference, property and dates, or neither; when the property does
\* not exist or an insert fails no guest row remains.
C28_RegistrationIsAtomic ==
    [][lastStep'.kind = "guests" =>
          IF lastStep'.code = 200
          THEN /\ lastStep'.propertyId \in PropertyIds
               /\ Len(guests') = Len(guests) + 1
               /\ SubSeq(guests', 1, Len(guests)) = guests
               /\ Len(bookings') = Len(bookings) + 1
               /\ SubSeq(bookings', 1, Len(bookings)) = bookings
               /\ LET guest == guests'[Len(guests')]
                      booking == bookings'[Len(bookings')]
                  IN  /\ booking.guestId = Len(guests')
                      /\ booking.status = "pending"
                      /\ booking.bookingReference = guest.bookingReference
                      /\ booking.bookingReference \in References
                      /\ booking.propertyId = guest.propertyId
                      /\ guest.propertyId = lastStep'.propertyId
                      /\ booking.checkIn = guest.checkIn
                      /\ booking.checkOut = guest.checkOut
                      /\ guest.checkIn = lastStep'.checkIn
                      /\ guest.checkOut = lastStep'.checkOut
          ELSE guests' = guests /\ bookings' = bookings]_vars

\* a registration for a property that does not exist, answered 500, after a
\* booking was stored
C28_Witness ==
    /\ lastStep.kind = "guests"
    /\ lastStep.code = 500
    /\ lastStep.propertyId \in UnknownPropertyIds
    /\ guests = <<>>
    /\ Len(bookings) = 1

\* ... and a registration stored with its booking
C28_WitnessStored ==
    /\ lastStep.kind = "guests"
    /\ lastStep.code = 200
    /\ Len(guests) = 1
    /\ bookings[Len(bookings)].bookingReference = "BOOKX7Y8Z9"

\* -------------------------------------------------------- client and server
\* C29: for every property and stay the estimator's calculatePricePeriods and
\* the server's give the same periods by type, start date and end date, and
\* the client's amount of a period is the server's undiscounted baseRate.
C29_ClientMatchesServer ==
    "client" \in called =>
        /\ Len(estimates.periods) = Len(pricePeriods)
        /\ \A i \in 1..Len(pricePeriods) :
              /\ estimates.periods[i].type = pricePeriods[i].type
              /\ estimates.periods[i].startDate = pricePeriods[i].startDate
              /\ estimates.periods[i].endDate = pricePeriods[i].endDate
              /\ estimates.periods[i].amount = pricePeriods[i].baseRate

\* a stay from mid-month whose later periods the server discounts
C29_Witness ==
    /\ "client" \in called
    /\ getDate(checkIn) = 15
    /\ Len(pricePeriods) = 4
    /\ pricePeriods[1].type = "monthly"
    /\ pricePeriods[4].type = "daily"
    /\ pricePeriods[4].amount < estimates.periods[4].amount

\* ------------------------------------------------------- batched estimator
RECURSIVE SumDays(_)
SumDays(periods) ==
    IF periods = <<>> THEN 0 ELSE Head(periods).daysInPeriod + SumDays(Tail(periods))

\* C30: in the batched estimator (months, then weeks, then days, each one
\* period) every period lies inside the stay: none ends after checkOut and the
\* periods' day counts sum to the days between checkIn and checkOut, for every
\* schedule and valid stay, mid-month starts included.
C30_BatchedPeriodsInsideStay ==
    (ValidStay /\ "client" \in called) =>
        /\ \A i \in 1..Len(estimates006.periods) :
              estimates006.periods[i].endDate <= checkOut
        /\ SumDays(estimates006.periods) = checkOut - checkIn

\* 20 January to 5 February estimated as one month that ends on 20 February
C30_Witness ==
    /\ "client" \in called
    /\ checkIn = 19 /\ checkOut = 35
    /\ Len(estimates006.periods) = 1
    /\ estimates006.periods[1].type = "monthly"
    /\ estimates006.periods[1].endDate = 50

\* the part of C30 the code agrees with: stays that start on the first day of
\* a month, and properties without a monthly rate
C30_InsideStayFromFirstOfMonth ==
    (ValidStay /\ "client" \in called
        /\ (getDate(checkIn) = 1 \/ property.monthlyRate = 0)) =>
            /\ \A i \in 1..Len(estimates006.periods) :
                  estimates006.periods[i].endDate <= checkOut
            /\ SumDays(estimates006.periods) = checkOut - checkIn

====
